---- MODULE Spec2Model ----
(***************************************************************************)
(* Request orchestration layer of pqai (core/api.py, plugins/miniapps):    *)
(* the validate / serve / format lifecycle of APIRequest and its           *)
(* subclasses, the adaptive retrieval loop of SearchRequest102, the        *)
(* derived-query and combination requests that nest a SearchRequest102,    *)
(* and the federation hooks.                                               *)
(***************************************************************************)
EXTENDS Integers, Sequences, FiniteSets, TLC

\* ---------------------------------------------------------------- bounds
\* Number of documents the vector index can return (documents are 1..MaxDocs).
MaxDocs == 2
\* Number of peer extensions contacted by remote.search_extensions.
MaxPeers == 1
\* Number of records one peer answers with, at most.
MaxPeerRecords == 1

\* Extension requests followed from one caller's search.
MaxHops == 5

\* ------------------------------------------------------ program constants
MAX_RES_LIMIT == 500
DEFAULT_N == 10
INTERIM_N == 100
TOP_INDEXES == 3
SUGGEST_N == 25
SUGGEST_AFTER == 2

\* ------------------------------------------------------------- utilities
Min(a, b) == IF a <= b THEN a ELSE b

Take(s, k) == IF k <= 0 THEN << >> ELSE SubSeq(s, 1, Min(k, Len(s)))

Range(s) == {s[i] : i \in 1..Len(s)}

\* Sequences without repetition over a finite set, of every length.
RECURSIVE ListsOver(_)
ListsOver(S) ==
    IF S = {} THEN {<< >>}
    ELSE {<< >>} \cup UNION {{<<x>> \o t : t \in ListsOver(S \ {x})} : x \in S}

Perms(k) == {p \in ListsOver(1..k) : Len(p) = k}

\* Python's results[:n] : a negative n counts from the end of the list.
PySlice(s, n) ==
    IF n >= 0 THEN Take(s, n)
    ELSE Take(s, IF Len(s) + n > 0 THEN Len(s) + n ELSE 0)

\* ---------------------------------------------------------------- strings
\* A text is a sequence of characters.
Whitespace == {" ", "\n"}

RECURSIVE LStrip(_)
LStrip(s) ==
    IF s = << >> THEN << >>
    ELSE IF Head(s) \in Whitespace THEN LStrip(Tail(s)) ELSE s

RECURSIVE RStrip(_)
RStrip(s) ==
    IF s = << >> THEN << >>
    ELSE IF s[Len(s)] \in Whitespace THEN RStrip(SubSeq(s, 1, Len(s) - 1)) ELSE s

\* str.strip()
Strip(s) == RStrip(LStrip(s))

\* --------------------------------------------------------------- errors
NoError == [type |-> "none", message |-> ""]

BadRequestError(msg) == [type |-> "BadRequestError", message |-> msg]

NotAllowedError(msg) == [type |-> "NotAllowedError", message |-> msg]

DEFAULT_SERVER_MSG == "Server error while handling request."

ServerError == [type |-> "ServerError", message |-> DEFAULT_SERVER_MSG]

\* An exception of a collaborator or of the interpreter (KeyError, ValueError...).
OtherError(what) == [type |-> "Exception", message |-> what]

ClientErrorTypes == {"BadRequestError", "NotAllowedError"}

\* ------------------------------------------------------- configuration
\* config.config flags, read once at import (core/api.py:18-28).
VARIABLES reranker_active, index_selection_disabled,
          allow_outgoing_extension_requests, allow_incoming_extension_requests

config == <<reranker_active, index_selection_disabled,
            allow_outgoing_extension_requests, allow_incoming_extension_requests>>

\* ------------------------------------------------------ request payloads
\* req_data: a string-keyed map. `has` is its key set; a key that is absent
\* holds the default below, so that equal maps are equal records.
\*   q, lq, text : texts;   n : [num, val], num = FALSE for a value int() rejects
\*   snip, maps  : a token; "int0"/"int1" are the integers 0 and 1, the others strings
\*   after, before : a date 1,2,...; 0 is the empty string
\*   type, idx, dataset, id, cpc : strings;   pn : a text
EmptyData ==
    [has |-> {}, q |-> << >>, lq |-> << >>, n |-> [num |-> TRUE, val |-> 0],
     idx |-> "", snip |-> "", maps |-> "", after |-> 0, before |-> 0,
     type |-> "", pn |-> << >>, dataset |-> "", id |-> "", text |-> << >>, cpc |-> ""]

\* d[key] = value
Put(d, key, value) == [d EXCEPT !.has = @ \cup {key}, ![key] = value]

\* d.pop(key)
Pop(d, key) == [d EXCEPT !.has = @ \ {key}, ![key] = EmptyData[key]]

IntVal(k) == [num |-> TRUE, val |-> k]

NotANumber == [num |-> FALSE, val |-> 0]

\* ------------------------------------------------------------ documents
Docs == 1..MaxDocs

\* Publication date and type of a document of the index (core.documents).
PubDate(d) == d

DocType(d) == IF d % 2 = 1 THEN "patent" ELSE "npl"

AvailableIndexes == {"i1", "i2"}

\* utils.is_patent_number
IsPatentNumber(pn) == pn \in {<<"U", "S", "1">>}

\* Patent(pn).filing_date
FilingDate(pn) == 1

\* Patent(pn).first_claim and utils.remove_claim_number of it
FirstClaim(pn) == <<"1", ".", " ", "c">>

RemoveClaimNumber(claim) ==
    IF Len(claim) >= 2 /\ claim[1] = "1" /\ claim[2] = "." THEN LStrip(SubSeq(claim, 3, Len(claim)))
    ELSE claim

\* ------------------------------------------------------------- filters
\* core.filters: a FilterArray is the sequence of its filters.
PublicationDateFilter(after, before) ==
    [kind |-> "date", after |-> after, before |-> before, doctype |-> ""]

DocTypeFilter(doctype) ==
    [kind |-> "doctype", after |-> 0, before |-> 0, doctype |-> doctype]

\* One filter keeps the documents it accepts, in their order (0 = no bound).
Accepts(f, d) ==
    IF f.kind = "date"
    THEN /\ (f.after = 0 \/ PubDate(d) >= f.after)
         /\ (f.before = 0 \/ PubDate(d) <= f.before)
    ELSE DocType(d) = f.doctype

RECURSIVE SelectSeq2(_, _)
SelectSeq2(s, f) ==
    IF s = << >> THEN << >>
    ELSE (IF Accepts(f, Head(s)) THEN <<Head(s)>> ELSE << >>) \o SelectSeq2(Tail(s), f)

\* FilterArray.apply: every filter in turn.
RECURSIVE ApplyFilters(_, _)
ApplyFilters(filters, s) ==
    IF filters = << >> THEN s
    ELSE ApplyFilters(Tail(filters), SelectSeq2(s, Head(filters)))

\* FilterExtractor._get_date_filter: None (here << >>) unless after or before is truthy.
GetDateFilter(d) ==
    LET after == IF "after" \in d.has THEN d.after ELSE 0
        before == IF "before" \in d.has THEN d.before ELSE 0
    IN IF after # 0 \/ before # 0 THEN <<PublicationDateFilter(after, before)>> ELSE << >>

\* FilterExtractor._get_doctype_filter
GetDoctypeFilter(d) ==
    LET doctype == IF "type" \in d.has THEN d.type ELSE ""
    IN IF doctype # "" THEN <<DocTypeFilter(doctype)>> ELSE << >>

\* FilterExtractor.extract
ExtractFilters(d) == GetDateFilter(d) \o GetDoctypeFilter(d)

\* ------------------------------------------------------- request objects
\* The log of one handling: what each request did, in order. `by` is the class
\* of the request that did it.
Ev(kind, what) == [by |-> kind, ev |-> what]

\* Calls that leave the core: indexes, documents, models, peers.
CollaboratorEvents ==
    {"available_indexes.get", "available_indexes.available", "select_indexes",
     "Patent", "Document", "vectorize_text", "vector_search", "reranker.rank",
     "extract_snippet", "generate_mapping", "remote.search_extensions",
     "Combiner", "PoC", "CPCDefinitionRetriever"}

SearchKinds == {"SearchRequest102", "SearchRequest103", "IncomingExtensionRequest"}

PatentKinds == {"SimilarPatentsRequest", "PatentPriorArtRequest"}

PassageKinds == {"SnippetRequest", "MappingRequest"}

OtherKinds == {"DocumentRequest", "DatasetSampleRequest", "SuggestCPCs", "DefineCPC"}

Kinds == SearchKinds \cup PatentKinds \cup PassageKinds \cup OtherKinds

\* The fields __init__ sets; a class that lacks a field holds the value below.
NoRequest ==
    [kind |-> "none", data |-> EmptyData, query |-> << >>, latent_query |-> << >>,
     n_results |-> 0, full_query |-> << >>, indexes |-> {}, need_snippets |-> FALSE,
     need_mappings |-> FALSE, filters |-> << >>, pn |-> << >>, before |-> 0]

\* SearchRequest._get_full_query
GetFullQuery(query, latent_query) == Strip(query \o <<"\n">> \o latent_query)

\* A faulty test: "auto" counts as the id of an index.
IndexSpecifiedInRequest_anyIdx(d) == "idx" \in d.has

\* SearchRequest._index_specified_in_request
IndexSpecifiedInRequest(d) ==
    IF ~("idx" \in d.has) THEN FALSE
    ELSE IF d.idx = "auto" THEN FALSE
    ELSE TRUE

\* Which of its three branches SearchRequest._get_indexes takes.
IndexRule(d) ==
    IF IndexSpecifiedInRequest(d) THEN "available_indexes.get"
    ELSE IF index_selection_disabled THEN "available_indexes.available"
    ELSE "select_indexes"

\* select_indexes(query, k): at most k of the available indexes, chosen from
\* the query text alone.
SelectIndexes(query, k) ==
    IF k <= 0 THEN {}
    ELSE IF Len(query) % 2 = 1 \/ k = 1 THEN {"i1"}
    ELSE {x \in AvailableIndexes : Cardinality(AvailableIndexes) <= k}

\* SearchRequest._get_indexes
GetIndexes(d, full_query) ==
    IF IndexSpecifiedInRequest(d) THEN {d.idx}
    ELSE IF index_selection_disabled THEN AvailableIndexes
    ELSE SelectIndexes(full_query, TOP_INDEXES)

\* SearchRequest._read_bool_value
ReadBoolValue(d, key) ==
    LET val == d[key]
    IN IF ~(key \in d.has) THEN FALSE
       ELSE IF val \in {"true", "1", "yes"} THEN TRUE
       ELSE IF val \in {"int0", "int1"} /\ val # "int0" THEN TRUE
       ELSE FALSE

\* SearchRequest._validation_fn
SearchValidationFn(d) ==
    IF ~("q" \in d.has) THEN BadRequestError("Request does not contain a query.")
    ELSE NoError

\* The outcome of a constructor: the exception it raised (or NoError), the
\* object (NoRequest when it raised) and what it did.
Built(err, obj, log) == [err |-> err, obj |-> obj, log |-> log]

\* SearchRequest.__init__ (and APIRequest.__init__ before it) for class `kind`.
SearchInit(kind, d) ==
    LET v == SearchValidationFn(d)
        log1 == <<Ev(kind, "validate")>>
        query == IF "q" \in d.has THEN d.q ELSE << >>
        latent == IF "lq" \in d.has THEN d.lq ELSE << >>
        rawn == IF "n" \in d.has THEN d.n ELSE IntVal(DEFAULT_N)
        log2 == log1 \o <<Ev(kind, "read_params")>>
        fq == GetFullQuery(query, latent)
        log3 == log2 \o <<Ev(kind, "get_full_query"), Ev(kind, IndexRule(d))>>
        log4 == log3 \o <<Ev(kind, "read_flags"), Ev(kind, "extract_filters")>>
    IN IF v # NoError THEN Built(v, NoRequest, log1)
       ELSE IF ~rawn.num THEN Built(OtherError("ValueError"), NoRequest, log2)
       ELSE Built(NoError,
                  [NoRequest EXCEPT !.kind = kind, !.data = d, !.query = query,
                      !.latent_query = latent, !.n_results = rawn.val,
                      !.full_query = fq, !.indexes = GetIndexes(d, fq),
                      !.need_snippets = ReadBoolValue(d, "snip"),
                      !.need_mappings = ReadBoolValue(d, "maps"),
                      !.filters = ExtractFilters(d)],
                  log4)

\* A faulty gate: the flag is consulted only after the parent constructor ran.
IncomingInit_late(d) ==
    LET b == SearchInit("IncomingExtensionRequest", d)
    IN IF b.err # NoError THEN b
       ELSE IF ~allow_incoming_extension_requests
       THEN Built(NotAllowedError("Server does not accept extension requests."),
                  NoRequest, b.log \o <<Ev("IncomingExtensionRequest", "gate")>>)
       ELSE b

\* IncomingExtensionRequest.__init__
IncomingInit(d) ==
    LET gate == <<Ev("IncomingExtensionRequest", "gate")>>
        b == SearchInit("IncomingExtensionRequest", d)
    IN IF ~allow_incoming_extension_requests
       THEN Built(NotAllowedError("Server does not accept extension requests."),
                  NoRequest, gate)
       ELSE Built(b.err, b.obj, gate \o b.log)

\* SimilarPatentsRequest._validation_fn
SimilarValidationFn(d) ==
    IF ~IsPatentNumber(d.pn)
    THEN BadRequestError("Request does not contain a valid patent number.")
    ELSE NoError

\* SimilarPatentsRequest.__init__
SimilarInit(kind, d) ==
    LET v == SimilarValidationFn(d)
        log1 == <<Ev(kind, "validate")>>
    IN IF v # NoError THEN Built(v, NoRequest, log1)
       ELSE Built(NoError, [NoRequest EXCEPT !.kind = kind, !.data = d, !.pn = d.pn],
                  log1 \o <<Ev(kind, "read_params")>>)

\* A faulty constructor: the filing date is looked up before the parent validates.
PriorArtInit_eager(d, found) ==
    LET b == SimilarInit("PatentPriorArtRequest", d)
        look == <<Ev("PatentPriorArtRequest", "Patent")>>
    IN IF ~found THEN Built(OtherError("Patent"), NoRequest, look)
       ELSE IF b.err # NoError THEN Built(b.err, NoRequest, look \o b.log)
       ELSE Built(NoError, [b.obj EXCEPT !.before = FilingDate(d.pn)], look \o b.log)

\* PatentPriorArtRequest.__init__; `found` is whether Patent(pn).filing_date answers.
PriorArtInit(d, found) ==
    LET b == SimilarInit("PatentPriorArtRequest", d)
        log2 == b.log \o <<Ev("PatentPriorArtRequest", "Patent")>>
    IN IF b.err # NoError THEN b
       ELSE IF ~found THEN Built(OtherError("Patent"), NoRequest, log2)
       ELSE Built(NoError, [b.obj EXCEPT !.before = FilingDate(d.pn)], log2)

\* DocumentRequest.__init__ and _validation_fn
DocumentInit(d) ==
    LET log1 == <<Ev("DocumentRequest", "validate")>>
    IN IF ~("id" \in d.has)
       THEN Built(BadRequestError("Request does not contain a document ID."), NoRequest, log1)
       ELSE Built(NoError, [NoRequest EXCEPT !.kind = "DocumentRequest", !.data = d],
                  log1 \o <<Ev("DocumentRequest", "read_params")>>)

\* PassageRequest._validation_fn
PassageValidationFn(d) ==
    IF d.q = << >> THEN BadRequestError("Request does not contain a query.")
    ELSE IF d.pn = << >> THEN BadRequestError("Request does not specify a document.")
    ELSE NoError

\* PassageRequest.__init__ for SnippetRequest and MappingRequest
PassageInit(kind, d) ==
    LET v == PassageValidationFn(d)
        log1 == <<Ev(kind, "validate")>>
    IN IF v # NoError THEN Built(v, NoRequest, log1)
       ELSE Built(NoError,
                  [NoRequest EXCEPT !.kind = kind, !.data = d, !.query = d.q, !.pn = d.pn],
                  log1 \o <<Ev(kind, "read_params"), Ev(kind, "Document")>>)

\* DatasetSampleRequest._validation_fn
DatasetValidationFn(d) ==
    IF ~("dataset" \in d.has)
    THEN BadRequestError("Request does not specify a dataset name.")
    ELSE IF ~("n" \in d.has)
    THEN BadRequestError("Request does not specify the sample number.")
    ELSE NoError

\* DatasetSampleRequest.__init__
DatasetInit(d) ==
    LET v == DatasetValidationFn(d)
        log1 == <<Ev("DatasetSampleRequest", "validate")>>
    IN IF v # NoError THEN Built(v, NoRequest, log1)
       ELSE Built(NoError, [NoRequest EXCEPT !.kind = "DatasetSampleRequest", !.data = d], log1)

\* TextBasedRequest._validation_fn (an absent text is None, which is no str)
TextValidationFn(d) ==
    IF ~("text" \in d.has) THEN BadRequestError("Invalid request")
    ELSE IF Strip(d.text) = << >> THEN BadRequestError("Invalid request")
    ELSE NoError

\* TextBasedRequest.__init__ for SuggestCPCs
TextBasedInit(kind, d) ==
    LET v == TextValidationFn(d)
        log1 == <<Ev(kind, "validate")>>
    IN IF v # NoError THEN Built(v, NoRequest, log1)
       ELSE Built(NoError, [NoRequest EXCEPT !.kind = kind, !.data = d],
                  log1 \o <<Ev(kind, "read_params")>>)

\* The codes cpc_pattern matches.
IsCPC(c) == c \in {"H04W4/00"}

\* DefineCPC._validation_fn
DefineCPCValidationFn(d) ==
    IF ~("cpc" \in d.has) THEN BadRequestError("Invalid request")
    ELSE IF ~IsCPC(d.cpc) THEN BadRequestError("Invalid CPC code")
    ELSE NoError

\* DefineCPC.__init__
DefineCPCInit(d) ==
    LET v == DefineCPCValidationFn(d)
        log1 == <<Ev("DefineCPC", "validate")>>
    IN IF v # NoError THEN Built(v, NoRequest, log1)
       ELSE Built(NoError, [NoRequest EXCEPT !.kind = "DefineCPC", !.data = d],
                  log1 \o <<Ev("DefineCPC", "read_params")>>)

\* ------------------------------------------------------ serving: pieces
\* A faulty handler: the exception is passed on as it is.
ServeExcept_leaky(e) == e

\* APIRequest.serve's `except:` clause: what the caller gets for an exception e
\* raised by _serving_fn or _formatting_fn.
ServeExcept(e) == ServerError

\* A faulty guard: the count is compared with <=.
LoopContinues_le(res, n, mm) == Len(res) <= n /\ mm < MAX_RES_LIMIT

\* The loop guard of SearchRequest102._get_results.
LoopContinues(res, n, mm) == Len(res) < n /\ mm < MAX_RES_LIMIT

\* A faulty widening: one candidate more instead of twice as many.
NextM_plusOne(mm) == mm + 1

\* `m *= 2` at the end of a round of SearchRequest102._get_results.
NextM(mm) == mm * 2

\* A faulty truncation: one entry too many.
Truncate_offByOne(res, n) == PySlice(res, n + 1)

\* What vector_search(qvec, indexes, m) may answer: documents in relevance order.
VectorSearchAnswers(indexes, mm) ==
    IF mm <= 0 \/ indexes = {} THEN {<< >>} ELSE ListsOver(Docs)

\* A faulty rerank: the test for a configured reranker is inverted.
Rerank_inverted(res, ranks) ==
    IF reranker_active THEN res
    ELSE [i \in 1..Len(ranks) |-> res[ranks[i]]]

\* SearchRequest102._rerank; `ranks` is what reranker.rank answers.
Rerank(res, ranks) ==
    IF ~reranker_active THEN res
    ELSE [i \in 1..Len(ranks) |-> res[ranks[i]]]

\* results[:self._n_results] of SearchRequest102._searching_fn
Truncate(res, n) == PySlice(res, n)

\* SearchResult.json(), after _add_snippet_if_needed and _add_mapping_if_needed
Json(doc, snip, maps) ==
    [id |-> doc, origin |-> "local", snippet |-> snip, mapping |-> maps]

\* One record a peer sends.
PeerJson(peer, j) ==
    [id |-> 100 * peer + j, origin |-> "peer", snippet |-> FALSE, mapping |-> FALSE]

\* What a peer does with the forwarded request: it answers with `count`
\* records, or it fails, or it does not answer in time.
PeerOutcomes(n) ==
    {[status |-> "ok", count |-> c] : c \in 0..(IF n > 0 THEN Min(n, MaxPeerRecords) ELSE 0)}
        \cup {[status |-> "fail", count |-> 0], [status |-> "timeout", count |-> 0]}

Peers == 1..MaxPeers

\* remote.search_extensions: every peer's records, one peer after the other;
\* a peer that fails or times out contributes nothing.
RECURSIVE SearchExtensions(_, _)
SearchExtensions(outcomes, p) ==
    IF p > MaxPeers THEN << >>
    ELSE (IF outcomes[p].status = "ok"
          THEN [j \in 1..outcomes[p].count |-> PeerJson(p, j)]
          ELSE << >>) \o SearchExtensions(outcomes, p + 1)

\* remote.merge: the lists one after the other.
RECURSIVE Merge(_)
Merge(lists) == IF lists = << >> THEN << >> ELSE Head(lists) \o Merge(Tail(lists))

\* A faulty merge: the configuration flag is not consulted.
AddRemoteResultsTo_always(local_results, remote_results) ==
    Merge(<<local_results, remote_results>>)

\* A faulty merge: the peers' records replace the local ones.
AddRemoteResultsTo_remoteOnly(local_results, remote_results) ==
    IF ~allow_outgoing_extension_requests THEN local_results
    ELSE remote_results

\* SearchRequest102._add_remote_results_to
AddRemoteResultsTo(local_results, remote_results) ==
    IF ~allow_outgoing_extension_requests THEN local_results
    ELSE Merge(<<local_results, remote_results>>)

\* SearchRequest103._get_interim_request_params
\* A faulty copy: `params` is the map of the request itself, so the edits land there.
DataAfterCopy_alias(d, edited) == edited

\* self._data after `params = self._data.copy()` and the edits made to params.
DataAfterCopy(d, edited) == d

\* Faulty interim parameters: the caller's snippet flag is kept.
GetInterimRequestParams_keepSnip(d) ==
    Put(Put(d, "n", IntVal(INTERIM_N)), "maps", "int0")

GetInterimRequestParams(d) ==
    Put(Put(Put(d, "n", IntVal(INTERIM_N)), "maps", "int0"), "snip", "int0")

\* SimilarPatentsRequest._create_text_query_request
CreateTextQueryRequest(d, pn) ==
    Pop(Put(d, "q", RemoveClaimNumber(FirstClaim(pn))), "pn")

\* SuggestCPCs._similar_patents: the request it builds
SuggestSearchReq(text) ==
    Put(Put(Put(Put(EmptyData, "q", text), "after", SUGGEST_AFTER), "type", "patent"),
        "n", IntVal(SUGGEST_N))

\* str.lower() on the dataset names in use
Lower(name) == IF name \in {"poc", "PoC"} THEN "poc" ELSE name

NoResponse == [kind |-> "none", results |-> << >>, query |-> << >>, latent_query |-> << >>]

\* The dict SearchRequest102._formatting_fn returns.
SearchResponse(results, query, latent_query) ==
    [kind |-> "search", results |-> results, query |-> query, latent_query |-> latent_query]

\* ------------------------------------------------------- request inputs
TextA == <<"a">>

ValidPn == <<"U", "S", "1">>

\* The values of `n` a caller sends besides leaving it out.
NValues == {-1, 0, 1, 250, 500, 501}

WithN(d, ns) == {Put(d, "n", IntVal(k)) : k \in ns}

\* q and lq: absent, empty, blank or a word.
QueryParts ==
    {EmptyData, Put(EmptyData, "lq", <<"b">>)}
        \cup {Put(EmptyData, "q", t) : t \in {<< >>, <<" ">>, TextA}}
        \cup {Put(Put(EmptyData, "q", t), "lq", l) :
                 t \in {<<" ">>, TextA}, l \in {<<" ">>, <<"b">>}}

\* The optional keys of a search, on a request whose query is a word.
OptionParts ==
    LET b == Put(EmptyData, "q", TextA)
    IN {Put(b, "idx", "auto"), Put(b, "idx", "i2"),
        Put(b, "snip", "true"), Put(b, "snip", "no"), Put(b, "maps", "int1"),
        Put(b, "after", 2), Put(b, "before", 2),
        Put(Put(b, "after", 0), "before", 0),
        Put(Put(b, "before", 1), "type", "patent")}

\* Single-reference searches: every n on a plain query, the default n and a
\* non-numeric n; the query forms and the options at an n that retrieves.
SearchPayloads ==
    LET b == Put(EmptyData, "q", TextA)
    IN {b, Put(b, "n", NotANumber)} \cup WithN(b, NValues)
        \cup UNION {WithN(d, {0, 250}) : d \in QueryParts}
        \cup UNION {WithN(d, {IF d.has \cap {"after", "before", "type"} # {} THEN 1 ELSE 250}) :
                       d \in OptionParts}

CombinationPayloads ==
    LET b == Put(EmptyData, "q", TextA)
    IN {EmptyData, Put(EmptyData, "q", << >>), b, Put(b, "lq", <<"b">>)}
        \cup WithN(b, {0, 1, 501}) \cup {Put(b, "n", NotANumber)}
        \cup {Put(Put(b, "snip", "true"), "maps", "int1"), Put(b, "type", "patent")}

IngressPayloads ==
    UNION {WithN(d, {0, 250}) : d \in QueryParts \cup OptionParts}
        \cup {Put(EmptyData, "q", TextA)}

PatentPayloads ==
    LET ps == {EmptyData, Put(EmptyData, "pn", <<"x">>), Put(EmptyData, "pn", ValidPn)}
    IN UNION {{p, Put(Put(p, "n", IntVal(1)), "before", 2),
               Put(Put(p, "n", IntVal(250)), "q", <<"z">>),
               Put(Put(p, "n", IntVal(250)), "snip", "true")} : p \in ps}

PassagePayloads ==
    {EmptyData, Put(EmptyData, "q", TextA), Put(EmptyData, "pn", ValidPn),
     Put(Put(EmptyData, "q", TextA), "pn", ValidPn),
     Put(Put(EmptyData, "q", << >>), "pn", ValidPn)}

DocumentPayloads == {EmptyData, Put(EmptyData, "id", "d1")}

DatasetPayloads ==
    UNION {{d, Put(d, "n", IntVal(1)), Put(d, "n", NotANumber)} :
              d \in {EmptyData} \cup {Put(EmptyData, "dataset", x) : x \in {"poc", "PoC", "foo"}}}

TextPayloads == {EmptyData} \cup {Put(EmptyData, "text", t) : t \in {<<" ">>, TextA}}

CPCPayloads == {EmptyData} \cup {Put(EmptyData, "cpc", c) : c \in {"H04W4/00", "bad"}}

Payloads(kind) ==
    IF kind = "SearchRequest102" THEN SearchPayloads
    ELSE IF kind = "SearchRequest103" THEN CombinationPayloads
    ELSE IF kind = "IncomingExtensionRequest" THEN IngressPayloads
    ELSE IF kind \in PatentKinds THEN PatentPayloads
    ELSE IF kind \in PassageKinds THEN PassagePayloads
    ELSE IF kind = "DocumentRequest" THEN DocumentPayloads
    ELSE IF kind = "DatasetSampleRequest" THEN DatasetPayloads
    ELSE IF kind = "SuggestCPCs" THEN TextPayloads
    ELSE CPCPayloads

\* The constructor of class `kind` on payload d.
New(kind, d, found) ==
    IF kind = "IncomingExtensionRequest" THEN IncomingInit(d)
    ELSE IF kind \in SearchKinds THEN SearchInit(kind, d)
    ELSE IF kind = "PatentPriorArtRequest" THEN PriorArtInit(d, found)
    ELSE IF kind = "SimilarPatentsRequest" THEN SimilarInit(kind, d)
    ELSE IF kind \in PassageKinds THEN PassageInit(kind, d)
    ELSE IF kind = "DocumentRequest" THEN DocumentInit(d)
    ELSE IF kind = "DatasetSampleRequest" THEN DatasetInit(d)
    ELSE IF kind = "SuggestCPCs" THEN TextBasedInit(kind, d)
    ELSE DefineCPCInit(d)

\* ------------------------------------------------------------------ state
\* pc       : idle, ready (constructed), retrieving, formatting, outer, done
\* req      : the request the caller constructed;  sub : the SearchRequest102
\*            a request builds inside its _serving_fn (NoRequest when none)
\* m, results, rounds : the locals of _get_results and the rounds it has run
\* ranked, served     : what _rerank and _searching_fn returned
\* response : what serve() returned;  err : the exception the caller got
\* raised   : every exception raised during the handling, in order
\* log      : what the requests did, in order
\* input    : the class and the parameter map the caller gave
VARIABLES pc, req, sub, m, results, rounds, ranked, served, response, err, raised, log,
          input

\* Two nodes that list each other as extension: the flags of the other node and
\* the requests in flight between the two, calls[i + 1] being the extension
\* request that calls[i] sent to the other node.
VARIABLES peer_allow_outgoing, peer_allow_incoming, calls

vars == <<reranker_active, index_selection_disabled, allow_outgoing_extension_requests,
          allow_incoming_extension_requests, pc, req, sub, m, results, rounds, ranked,
          served, response, err, raised, log, input,
          peer_allow_outgoing, peer_allow_incoming, calls>>

federation == <<peer_allow_outgoing, peer_allow_incoming, calls>>

handling == <<pc, req, sub, m, results, rounds, ranked, served, response, err, raised,
              log, input>>

retrieval == <<m, results, rounds, ranked, served>>

\* No request is being handled.
Idle ==
    /\ pc = "idle"
    /\ req = NoRequest
    /\ sub = NoRequest
    /\ m = 0
    /\ results = << >>
    /\ rounds = 0
    /\ ranked = << >>
    /\ served = << >>
    /\ response = NoResponse
    /\ err = NoError
    /\ raised = << >>
    /\ log = << >>
    /\ input = [kind |-> "none", data |-> EmptyData]

Init ==
    /\ reranker_active \in BOOLEAN
    /\ index_selection_disabled \in BOOLEAN
    /\ allow_outgoing_extension_requests \in BOOLEAN
    /\ allow_incoming_extension_requests \in BOOLEAN
    /\ Idle
    /\ peer_allow_outgoing = FALSE
    /\ peer_allow_incoming = FALSE
    /\ calls = << >>

\* The request whose SearchRequest102 lifecycle is running.
Active == IF sub.kind # "none" THEN sub ELSE req

Nested == sub.kind # "none"

\* The exceptions seen when e is raised inside `depth` nested serve() calls.
RECURSIVE Escalate(_, _)
Escalate(e, depth) ==
    IF depth = 0 THEN <<e>> ELSE <<e>> \o Escalate(ServeExcept(e), depth - 1)

Last(s) == s[Len(s)]

\* e is raised inside `depth` nested serve() calls: the handling ends.
Abort(e, depth, events) ==
    /\ pc' = "done"
    /\ raised' = raised \o Escalate(e, depth)
    /\ err' = Last(Escalate(e, depth))
    /\ log' = log \o events
    /\ UNCHANGED <<config, federation, req, sub, retrieval, response, input>>

\* A caller constructs a request of some class from its parameters.
Construct ==
    /\ pc = "idle"
    /\ \E kind \in Kinds :
         \E d \in Payloads(kind),
            found \in (IF kind = "PatentPriorArtRequest" THEN BOOLEAN ELSE {TRUE}) :
            LET b == New(kind, d, found)
            IN /\ req' = b.obj
               /\ log' = b.log
               /\ err' = b.err
               /\ raised' = IF b.err = NoError THEN << >> ELSE <<b.err>>
               /\ pc' = IF b.err = NoError THEN "ready" ELSE "done"
               /\ input' = [kind |-> kind, data |-> d]
    /\ UNCHANGED <<config, federation, sub, retrieval, response>>

\* -------------------------------------------------- single-reference search
\* SearchRequest102._get_results up to its loop: the query is vectorized and
\* m starts at n.
StartRetrieval(obj, events) ==
    /\ pc' = "retrieving"
    /\ m' = obj.n_results
    /\ results' = << >>
    /\ rounds' = 0
    /\ log' = log \o events \o <<Ev("SearchRequest102", "vectorize_text")>>
    /\ UNCHANGED <<config, federation, ranked, served, response, err, raised, input>>

\* serve() of a SearchRequest102 or an IncomingExtensionRequest begins.
BeginSearch ==
    /\ pc = "ready"
    /\ req.kind \in {"SearchRequest102", "IncomingExtensionRequest"}
    /\ \E ok \in BOOLEAN :
         IF ok THEN StartRetrieval(req, << >>) /\ UNCHANGED <<req, sub>>
         ELSE Abort(OtherError("vectorize_text"), 1, <<Ev("SearchRequest102", "vectorize_text")>>)

\* One round of the loop of _get_results: search m candidates, filter, double m.
SearchRound ==
    /\ pc = "retrieving"
    /\ LoopContinues(results, Active.n_results, m)
    /\ \/ \E found \in VectorSearchAnswers(Active.indexes, m) :
            /\ results' = ApplyFilters(Active.filters, found)
            /\ m' = NextM(m)
            /\ rounds' = rounds + 1
            /\ log' = log \o <<Ev("SearchRequest102", "vector_search")>>
            /\ UNCHANGED <<config, federation, pc, req, sub, ranked, served, response, err, raised, input>>
       \/ Abort(OtherError("vector_search"), IF Nested THEN 2 ELSE 1,
                <<Ev("SearchRequest102", "vector_search")>>)

\* The loop is left; _searching_fn reranks and truncates.
FinishSearch ==
    /\ pc = "retrieving"
    /\ ~LoopContinues(results, Active.n_results, m)
    /\ \/ \E ranks \in (IF reranker_active THEN Perms(Len(results)) ELSE {<< >>}) :
            /\ ranked' = Rerank(results, ranks)
            /\ served' = Truncate(Rerank(results, ranks), Active.n_results)
            /\ pc' = "formatting"
            /\ log' = log \o (IF reranker_active
                              THEN <<Ev("SearchRequest102", "reranker.rank")>> ELSE << >>)
            /\ UNCHANGED <<config, federation, req, sub, m, results, rounds, response, err, raised, input>>
       \/ /\ reranker_active
          /\ Abort(OtherError("reranker.rank"), IF Nested THEN 2 ELSE 1,
                   <<Ev("SearchRequest102", "reranker.rank")>>)

\* What the peers did, as remote.search_extensions saw it.
RECURSIVE PeerEvents(_, _)
PeerEvents(outcomes, p) ==
    IF p > MaxPeers THEN << >>
    ELSE <<Ev("peer", outcomes[p].status)>> \o PeerEvents(outcomes, p + 1)

\* What _formatting_fn calls for the served list.
FormatEvents(obj, list, outcomes) ==
    (IF obj.need_snippets /\ list # << >>
     THEN <<Ev("SearchRequest102", "extract_snippet")>> ELSE << >>)
    \o (IF obj.need_mappings /\ list # << >>
        THEN <<Ev("SearchRequest102", "generate_mapping")>> ELSE << >>)
    \o (IF allow_outgoing_extension_requests
        THEN <<Ev("SearchRequest102", "remote.search_extensions")>> \o PeerEvents(outcomes, 1)
        ELSE << >>)

\* How the peers would behave if asked during one handling.
PeerBehaviours(n) == [Peers -> PeerOutcomes(n)]

\* The served list serialized, as _formatting_fn does before the peers are asked.
LocalJson(obj, list) ==
    [i \in 1..Len(list) |-> Json(list[i], obj.need_snippets, obj.need_mappings)]

\* SearchRequest102._formatting_fn on the served list, the peers behaving as `outcomes`.
FormattingFn(obj, list, outcomes) ==
    SearchResponse(AddRemoteResultsTo(LocalJson(obj, list), SearchExtensions(outcomes, 1)),
                   obj.query, obj.latent_query)

\* _formatting_fn of the running SearchRequest102; serve() returns.
Format ==
    /\ pc = "formatting"
    /\ \/ \E outcomes \in PeerBehaviours(Active.n_results) :
            /\ response' = FormattingFn(Active, served, outcomes)
            /\ pc' = IF Nested THEN "outer" ELSE "done"
            /\ log' = log \o FormatEvents(Active, served, outcomes)
            /\ UNCHANGED <<config, federation, req, sub, retrieval, err, raised, input>>
       \/ /\ Active.need_snippets /\ served # << >>
          /\ Abort(OtherError("extract_snippet"), IF Nested THEN 2 ELSE 1,
                   <<Ev("SearchRequest102", "extract_snippet")>>)

\* ------------------------------------------- requests that nest a search
\* The SearchRequest102 built inside a _serving_fn from `params`; then its serve().
StartNested(params, self_data, events) ==
    LET b == SearchInit("SearchRequest102", params)
    IN IF b.err # NoError THEN Abort(b.err, 1, events \o b.log)
       ELSE /\ sub' = b.obj
            /\ req' = [req EXCEPT !.data = self_data]
            /\ StartRetrieval(b.obj, events \o b.log)

\* SearchRequest103._serving_fn up to interim_req.serve()
BeginCombination ==
    /\ pc = "ready"
    /\ req.kind = "SearchRequest103"
    /\ LET params == GetInterimRequestParams(req.data)
       IN StartNested(params, DataAfterCopy(req.data, params), << >>)

\* A faulty prior-art request: a `before` of the caller is kept.
DerivedParams_keepCaller(obj) ==
    LET p == CreateTextQueryRequest(obj.data, obj.pn)
    IN IF obj.kind = "PatentPriorArtRequest" /\ "before" \notin p.has
       THEN Put(p, "before", obj.before) ELSE p

\* The search request a derived-query request serves.
DerivedParams(obj) ==
    LET p == CreateTextQueryRequest(obj.data, obj.pn)
    IN IF obj.kind = "PatentPriorArtRequest" THEN Put(p, "before", obj.before) ELSE p

\* SimilarPatentsRequest._serving_fn / PatentPriorArtRequest._serving_fn up to
\* SearchRequest102(search_request).serve(); `found`: Patent(pn).first_claim answers.
BeginDerived ==
    /\ pc = "ready"
    /\ req.kind \in PatentKinds
    /\ \E found \in BOOLEAN :
         IF ~found THEN Abort(OtherError("Patent"), 1, <<Ev(req.kind, "Patent")>>)
         ELSE LET params == DerivedParams(req)
              IN StartNested(params, DataAfterCopy(req.data, params),
                             <<Ev(req.kind, "Patent")>>)

\* SuggestCPCs._similar_patents up to SearchRequest102(search_req).serve()
BeginSuggest ==
    /\ pc = "ready"
    /\ req.kind = "SuggestCPCs"
    /\ StartNested(SuggestSearchReq(req.data.text), req.data, << >>)

\* What Combiner(...).get_combinations(n) may answer on k documents: no pair,
\* or one pair of distinct positions among the first two and the last.
CombinerAnswers(k, n) ==
    {<< >>} \cup (IF n > 0 /\ k >= 2 THEN {<<<<1, 2>>>>, <<<<2, 1>>>>, <<<<k, 1>>>>} ELSE {})

\* SearchRequest103: _searching_fn after the pool is there, and _formatting_fn.
FinishCombination ==
    /\ pc = "outer"
    /\ req.kind = "SearchRequest103"
    /\ \/ \E pairs \in CombinerAnswers(Len(response.results), req.n_results) :
            LET docs == response.results
                out == [c \in 1..Len(pairs) |->
                           [x \in 1..2 |->
                               [docs[pairs[c][x]] EXCEPT !.snippet = req.need_snippets,
                                                         !.mapping = req.need_mappings]]]
            IN /\ response' = [kind |-> "combinations", results |-> out,
                               query |-> req.query, latent_query |-> req.latent_query]
               /\ pc' = "done"
               /\ log' = log \o <<Ev("SearchRequest103", "Combiner")>>
               /\ UNCHANGED <<config, federation, req, sub, retrieval, err, raised, input>>
       \/ Abort(OtherError("Combiner"), 1, <<Ev("SearchRequest103", "Combiner")>>)

\* SimilarPatentsRequest._formatting_fn
FinishDerived ==
    /\ pc = "outer"
    /\ req.kind \in PatentKinds
    /\ response' = [response EXCEPT !.query = req.pn]
    /\ pc' = "done"
    /\ UNCHANGED <<config, federation, req, sub, retrieval, err, raised, log, input>>

\* SuggestCPCs._serving_fn after _similar_patents: the patents' most common CPC
\* code `code` ("" when there is none) is defined by a nested DefineCPC request.
FinishSuggest ==
    /\ pc = "outer"
    /\ req.kind = "SuggestCPCs"
    /\ \E code \in (IF response.results = << >> THEN {""} ELSE {"", "H04W4/00", "bad"}),
          ok \in BOOLEAN :
         LET look == IF response.results = << >> THEN << >> ELSE <<Ev("SuggestCPCs", "Patent")>>
             b == DefineCPCInit(Put(EmptyData, "cpc", code))
             call == b.log \o <<Ev("DefineCPC", "CPCDefinitionRetriever")>>
         IN IF code = ""
            THEN /\ response' = [NoResponse EXCEPT !.kind = "cpcs"]
                 /\ pc' = "done"
                 /\ log' = log \o look
                 /\ UNCHANGED <<config, federation, req, sub, retrieval, err, raised, input>>
            ELSE IF b.err # NoError THEN Abort(b.err, 1, look \o b.log)
            ELSE IF ~ok THEN Abort(OtherError("CPCDefinitionRetriever"), 2, look \o call)
            ELSE /\ response' = [NoResponse EXCEPT !.kind = "cpcs", !.results = <<code>>]
                 /\ pc' = "done"
                 /\ log' = log \o look \o call
                 /\ UNCHANGED <<config, federation, req, sub, retrieval, err, raised, input>>

\* --------------------------------------------------------- other requests
Answer(kind, events) ==
    /\ response' = [NoResponse EXCEPT !.kind = kind]
    /\ pc' = "done"
    /\ log' = log \o events
    /\ UNCHANGED <<config, federation, req, sub, retrieval, err, raised, input>>

\* DocumentRequest, SnippetRequest, MappingRequest, DefineCPC: serve() is one
\* call of a collaborator, which answers or raises.
ServeLookup ==
    /\ pc = "ready"
    /\ req.kind \in {"DocumentRequest", "DefineCPC"} \cup PassageKinds
    /\ LET what == IF req.kind = "DocumentRequest" THEN "Document"
                   ELSE IF req.kind = "DefineCPC" THEN "CPCDefinitionRetriever"
                   ELSE IF req.kind = "SnippetRequest" THEN "extract_snippet"
                   ELSE "generate_mapping"
       IN \E ok \in BOOLEAN :
            IF ok THEN Answer(req.kind, <<Ev(req.kind, what)>>)
            ELSE Abort(OtherError(what), 1, <<Ev(req.kind, what)>>)

DatasetMsg(name) ==
    IF name = "foo" THEN "No dataset named foo." ELSE "No dataset named <name>."

\* DatasetSampleRequest._serving_fn and _formatting_fn
ServeDataset ==
    /\ pc = "ready"
    /\ req.kind = "DatasetSampleRequest"
    /\ \E ok \in BOOLEAN :
         IF Lower(req.data.dataset) # "poc"
         THEN Abort(BadRequestError(DatasetMsg(req.data.dataset)), 1, << >>)
         ELSE IF ~req.data.n.num THEN Abort(OtherError("ValueError"), 1, << >>)
         ELSE IF ~ok
         THEN Abort(OtherError("PoC"), 1, <<Ev("DatasetSampleRequest", "PoC")>>)
         ELSE Answer("sample", <<Ev("DatasetSampleRequest", "PoC"),
                                 Ev("DatasetSampleRequest", "Patent")>>)

Next ==
    \/ Construct
    \/ BeginSearch
    \/ SearchRound
    \/ FinishSearch
    \/ Format
    \/ BeginCombination
    \/ BeginDerived
    \/ BeginSuggest
    \/ FinishCombination
    \/ FinishDerived
    \/ FinishSuggest
    \/ ServeLookup
    \/ ServeDataset

Spec == Init /\ [][Next]_vars

\* ---------------------------------------------------------------------------
\* Federation between two nodes. Each node runs this module; "home" received the
\* caller's search, "peer" is its extension, and home is the extension of peer.
\* The local part of each request (retrieval, rerank, truncation) is the
\* lifecycle above: here it ends in one step, in _formatting_fn or in an error.

Nodes == {"home", "peer"}

Other(node) == IF node = "home" THEN "peer" ELSE "home"

\* config.allow_outgoing_extension_requests of a node
Outgoing(node) ==
    IF node = "home" THEN allow_outgoing_extension_requests ELSE peer_allow_outgoing

\* config.allow_incoming_extension_requests of a node
Incoming(node) ==
    IF node = "home" THEN allow_incoming_extension_requests ELSE peer_allow_incoming

Call(node, kind, st) == [node |-> node, kind |-> kind, st |-> st]

InitFed ==
    /\ reranker_active = FALSE
    /\ index_selection_disabled = FALSE
    /\ allow_outgoing_extension_requests \in BOOLEAN
    /\ allow_incoming_extension_requests \in BOOLEAN
    /\ peer_allow_outgoing \in BOOLEAN
    /\ peer_allow_incoming \in BOOLEAN
    /\ Idle
    /\ calls = << >>

\* A caller's SearchRequest102 is constructed and served at the home node.
FedSubmit ==
    /\ calls = << >>
    /\ calls' = <<Call("home", "SearchRequest102", "serving")>>
    /\ UNCHANGED <<config, handling, peer_allow_outgoing, peer_allow_incoming>>

\* _searching_fn of a request returns, or raises and serve() raises ServerError.
FedSearch ==
    /\ \E i \in 1..Len(calls), ok \in BOOLEAN :
         /\ calls[i].st = "serving"
         /\ calls' = [calls EXCEPT ![i].st = IF ok THEN "formatting" ELSE "failed"]
    /\ UNCHANGED <<config, handling, peer_allow_outgoing, peer_allow_incoming>>

\* _add_remote_results_to with outgoing federation off: the local results.
FedLocalOnly ==
    /\ \E i \in 1..Len(calls) :
         /\ calls[i].st = "formatting"
         /\ ~Outgoing(calls[i].node)
         /\ calls' = [calls EXCEPT ![i].st = "answered"]
    /\ UNCHANGED <<config, handling, peer_allow_outgoing, peer_allow_incoming>>

\* _add_remote_results_to with outgoing federation on: self._data goes to the
\* other node, where IncomingExtensionRequest is constructed: refused by its
\* gate, or served by the lifecycle it inherits from SearchRequest102.
FedForward ==
    /\ Len(calls) < MaxHops
    /\ LET i == Len(calls)
           to == Other(calls[i].node)
       IN /\ i >= 1
          /\ calls[i].st = "formatting"
          /\ Outgoing(calls[i].node)
          /\ calls' = Append([calls EXCEPT ![i].st = "waiting"],
                             Call(to, "IncomingExtensionRequest",
                                  IF Incoming(to) THEN "serving" ELSE "refused"))
    /\ UNCHANGED <<config, handling, peer_allow_outgoing, peer_allow_incoming>>

\* The other node's answer, refusal or error arrives: the merge is returned.
FedReply ==
    /\ \E i \in 1..(Len(calls) - 1) :
         /\ calls[i].st = "waiting"
         /\ calls[i + 1].st \in {"answered", "refused", "failed"}
         /\ calls' = [calls EXCEPT ![i].st = "answered"]
    /\ UNCHANGED <<config, handling, peer_allow_outgoing, peer_allow_incoming>>

\* The wait for the other node is given up: the local results are returned.
FedTimeout ==
    /\ \E i \in 1..Len(calls) :
         /\ calls[i].st = "waiting"
         /\ calls' = [calls EXCEPT ![i].st = "answered"]
    /\ UNCHANGED <<config, handling, peer_allow_outgoing, peer_allow_incoming>>

NextFed ==
    \/ FedSubmit
    \/ FedSearch
    \/ FedLocalOnly
    \/ FedForward
    \/ FedReply
    \/ FedTimeout

SpecFed == InitFed /\ [][NextFed]_vars

\* ================================================================ claims
SingleReferenceKinds == {"SearchRequest102", "IncomingExtensionRequest"}

\* _searching_fn of the running SearchRequest102 has returned.
SearchDone == pc \in {"formatting", "outer"} \/ (pc = "done" /\ response.kind # "none")

\* _searching_fn has returned to a single-reference search, nested or not.
Searched == SearchDone /\ Active.kind \in SingleReferenceKinds

Count(ev) == Cardinality({i \in 1..Len(log) : log[i].ev = ev})

PeerFailed == \E i \in 1..Len(log) : log[i].by = "peer" /\ log[i].ev \in {"fail", "timeout"}

PeerAnswered == \E i \in 1..Len(log) : log[i].by = "peer" /\ log[i].ev = "ok"

GateMessage == "Server does not accept extension requests."

\* C1: with incoming federation disabled, constructing an ingress request fails
\* with NotAllowedError for every payload, and the gate is the only thing done:
\* no validation, no query building, no index resolution, no filter extraction.
C1_IngressGateFirst ==
    (input.kind = "IncomingExtensionRequest" /\ ~allow_incoming_extension_requests)
        => /\ pc = "done"
           /\ err = NotAllowedError(GateMessage)
           /\ req = NoRequest
           /\ log = <<Ev("IncomingExtensionRequest", "gate")>>

\* C1 witness: a payload without q is refused by the gate, not by validation.
C1_Witness ==
    /\ input.kind = "IncomingExtensionRequest"
    /\ ~allow_incoming_extension_requests
    /\ ~("q" \in input.data.has)
    /\ err.type = "NotAllowedError"

\* C2: for n <= 0 a single-reference search runs no vector-search round and
\* serves the empty list.
C2_NoRoundsForNonPositiveN ==
    (pc # "idle" /\ Active.kind \in SingleReferenceKinds /\ Active.n_results <= 0)
        => /\ rounds = 0
           /\ Count("vector_search") = 0
           /\ results = << >>
           /\ served = << >>
           /\ (response.kind = "search"
                  => \A i \in 1..Len(response.results) : response.results[i].origin # "local")

\* C2 witness: a search asking for -1 results has been served.
C2_Witness ==
    /\ pc = "done"
    /\ input.kind = "SearchRequest102"
    /\ req.n_results < 0
    /\ response.kind = "search"
    /\ rounds = 0

\* C3: for 0 < n <= 500 the served list has at most n entries and is the first
\* n of the final filtered set, in the order of the vector search when there is
\* no reranker and in the reranker's order when there is one.
C3_ServedIsFirstN ==
    (SearchDone /\ Active.n_results > 0 /\ Active.n_results <= MAX_RES_LIMIT)
        => /\ Len(served) <= Active.n_results
           /\ served = Take(ranked, Active.n_results)
           /\ Len(ranked) = Len(results)
           /\ Range(ranked) = Range(results)
           /\ (~reranker_active => ranked = results)

\* C3 witness: a filtered set larger than n was cut to n.
C3_Witness ==
    /\ SearchDone
    /\ Active.filters # << >>
    /\ Active.n_results = 1
    /\ Len(results) > 1
    /\ Len(served) = 1

\* C4: the results of a single-reference response have at most n entries
\* (0 < n <= 500), outgoing federation included.
C4_ResponseAtMostN ==
    (pc = "done" /\ input.kind \in SingleReferenceKinds /\ response.kind = "search"
         /\ req.n_results > 0 /\ req.n_results <= MAX_RES_LIMIT)
        => Len(response.results) <= req.n_results

\* C5: retrieval never runs with n < 0 or n > 500.
C5_NBoundedBeforeRetrieval ==
    (pc = "retrieving" /\ Active.kind \in SingleReferenceKinds)
        => (Active.n_results >= 0 /\ Active.n_results <= MAX_RES_LIMIT)

\* C6: a search request that passed validation has a non-empty full query; a
\* request whose q and lq are empty or blank is rejected with BadRequestError.
C6_FullQueryNonEmpty ==
    /\ (req.kind \in SearchKinds => req.full_query # << >>)
    /\ (input.kind \in SearchKinds /\ "q" \in input.data.has
          /\ GetFullQuery(input.data.q, input.data.lq) = << >>
          /\ (input.kind = "IncomingExtensionRequest" => allow_incoming_extension_requests))
         => err.type = "BadRequestError"

\* C7: a BadRequestError or NotAllowedError raised while a request is handled,
\* the serve phase included, reaches the caller as it was raised.
C7_ClientErrorsVerbatim ==
    (pc = "done" /\ raised # << >> /\ raised[1].type \in ClientErrorTypes)
        => err = raised[1]

\* C8: whatever is raised inside serve() reaches the caller as a ServerError
\* with the default message and nothing of the cause; no other exception type
\* leaves serve().
C8_ServeRaisesOnlyServerError ==
    (pc = "done" /\ req.kind # "none" /\ raised # << >>)
        => /\ err.type = "ServerError"
           /\ err.message = DEFAULT_SERVER_MSG

\* C8 witness: a collaborator raised during serve and the caller got ServerError.
C8_Witness ==
    /\ pc = "done"
    /\ req.kind # "none"
    /\ raised # << >>
    /\ raised[1].type = "Exception"
    /\ err = ServerError

ValidationMessages ==
    {"Request does not contain a query.",
     "Request does not contain a valid patent number.",
     "Request does not contain a document ID.",
     "Request does not specify a document.",
     "Request does not specify a dataset name.",
     "Request does not specify the sample number.",
     "Invalid request", "Invalid CPC code"}

\* The validation step of the request that acted last has failed.
ValidationFailed ==
    /\ pc = "done"
    /\ raised # << >>
    /\ raised[1].type = "BadRequestError"
    /\ raised[1].message \in ValidationMessages

\* C9: when a request's validation fails, that request has invoked no
\* collaborator: its validation is the last thing logged and nothing it logged
\* is a collaborator call.
C9_ValidationBeforeResources ==
    ValidationFailed
        => /\ log # << >>
           /\ Last(log).ev = "validate"
           /\ \A i \in 1..Len(log) :
                 log[i].by = Last(log).by => ~(log[i].ev \in CollaboratorEvents)

\* C9 witness: a prior-art request with an invalid patent id was rejected.
C9_Witness ==
    /\ ValidationFailed
    /\ input.kind = "PatentPriorArtRequest"
    /\ "pn" \in input.data.has
    /\ ~IsPatentNumber(input.data.pn)

C11_FederationOffIsLocalOnly ==
    (~allow_outgoing_extension_requests /\ response.kind = "search"
        /\ ((pc = "done" /\ input.kind \in SingleReferenceKinds) \/ pc = "outer"))
        => /\ response.results = LocalJson(Active, served)
           /\ Count("remote.search_extensions") = 0
           /\ \A i \in 1..Len(log) : log[i].by # "peer"

\* C11 witness: a search with local results answered with federation off.
C11_Witness ==
    /\ ~allow_outgoing_extension_requests
    /\ pc = "done"
    /\ input.kind = "SearchRequest102"
    /\ served # << >>
    /\ response.results = LocalJson(req, served)

\* C12: the search a prior-art-by-patent request serves is built with `before`
\* equal to the filing date of the source patent, whatever `before` the caller
\* supplied, so no candidate published later than that date is retrieved.
C12_PriorArtBeforeIsFilingDate ==
    (req.kind = "PatentPriorArtRequest" /\ Nested)
        => /\ "before" \in sub.data.has
           /\ sub.data.before = FilingDate(req.pn)
           /\ \E i \in 1..Len(sub.filters) :
                sub.filters[i].kind = "date" /\ sub.filters[i].before = FilingDate(req.pn)
           /\ \A i \in 1..Len(results) : PubDate(results[i]) <= FilingDate(req.pn)

\* C12 witness: the caller asked for a later `before`, and candidates were found.
C12_Witness ==
    /\ req.kind = "PatentPriorArtRequest"
    /\ "before" \in input.data.has
    /\ input.data.before > FilingDate(req.pn)
    /\ Nested
    /\ sub.data.before = FilingDate(req.pn)
    /\ rounds >= 1
    /\ results # << >>

\* The keys a request's parameter map can hold.
DataKeys == DOMAIN EmptyData \ {"has"}

\* The inner parameters agree with the outer ones on every key outside `changed`.
SameOutside(inner, outer, changed) ==
    \A k \in DataKeys \ changed :
        /\ (k \in inner.has) = (k \in outer.has)
        /\ inner[k] = outer[k]

\* The frame of a derived-query request: the caller's map is as it was given, and
\* the response echoes the patent id as its query.
DerivedFrame ==
    /\ req.data = input.data
    /\ (pc = "done" /\ response.kind = "search") => response.query = input.data.pn

\* The inner parameters have `q` replaced by the cleaned first claim and no `pn`.
DerivedQueryReplaced ==
    /\ "q" \in sub.data.has
    /\ sub.data.q = RemoveClaimNumber(FirstClaim(req.pn))
    /\ "pn" \notin sub.data.has

\* C13 as stated: for a similar-by-patent or prior-art request the inner
\* parameters are the original ones with `q` replaced by the cleaned first claim
\* and `pn` removed, and nothing else differs; the caller's map is unchanged and
\* the response query is the patent id.
C13_Original ==
    (req.kind \in PatentKinds /\ Nested)
        => /\ DerivedQueryReplaced
           /\ SameOutside(sub.data, req.data, {"q", "pn"})
           /\ DerivedFrame

\* C13 amended: as above, except that in the prior-art variant `before` is also
\* replaced, by the filing date of the source patent.
C13_DerivedParamsAreEditedCopy ==
    (req.kind \in PatentKinds /\ Nested)
        => /\ DerivedQueryReplaced
           /\ IF req.kind = "PatentPriorArtRequest"
              THEN /\ SameOutside(sub.data, req.data, {"q", "pn", "before"})
                   /\ "before" \in sub.data.has
                   /\ sub.data.before = req.before
              ELSE SameOutside(sub.data, req.data, {"q", "pn"})
           /\ DerivedFrame

\* C13 witness: a similar-by-patent request that came with a `q` of its own is
\* answered.
C13_Witness ==
    /\ req.kind = "SimilarPatentsRequest"
    /\ "q" \in input.data.has
    /\ input.data.q # sub.data.q
    /\ "n" \in sub.data.has
    /\ pc = "done"
    /\ response.kind = "search"
    /\ response.query = ValidPn

\* The scope of a search that names no index: every available index when index
\* selection is disabled, the indexes selected for the full query otherwise.
DefaultScope(obj) ==
    IF index_selection_disabled THEN AvailableIndexes
    ELSE SelectIndexes(obj.full_query, TOP_INDEXES)

\* C14: under either setting of index_selection_disabled, a search request with
\* idx = "auto" has the index scope of the same request without idx, and one
\* with any other idx has exactly that index as its scope.
C14_AutoIsOmittedIdx ==
    \A obj \in {req, sub} :
        obj.kind \in SearchKinds
            => IF "idx" \notin obj.data.has \/ obj.data.idx = "auto"
               THEN obj.indexes = DefaultScope(obj)
               ELSE obj.indexes = {obj.data.idx}

\* C14 witness: a request with idx = "auto" is served while index selection is
\* enabled and selects fewer than all the indexes.
C14_WitnessAuto ==
    /\ req.kind \in SearchKinds
    /\ "idx" \in req.data.has
    /\ req.data.idx = "auto"
    /\ ~index_selection_disabled
    /\ req.indexes = SelectIndexes(req.full_query, TOP_INDEXES)
    /\ req.indexes # AvailableIndexes
    /\ rounds >= 1

\* C15 as stated: for every n > 0, n = 500 and larger n included, the retrieval
\* loop runs at least one vector-search round.
C15_AtLeastOneRound ==
    (Searched /\ Active.n_results > 0) => rounds >= 1

\* The breadth the last round was issued with (m is widened after each round).
LastBreadth == m \div 2

\* C16 as stated: whenever retrieval ends with fewer than n filtered results,
\* the last round was issued with a breadth of at least the ceiling.
C16_ShortOnlyAtCeiling ==
    (Searched /\ rounds >= 1 /\ Len(results) < Active.n_results)
        => LastBreadth >= MAX_RES_LIMIT

\* The number of doublings that take x to the limit: ceil(log2(limit / x)).
RECURSIVE CeilLog2Ratio(_, _)
CeilLog2Ratio(limit, x) == IF x >= limit THEN 0 ELSE 1 + CeilLog2Ratio(limit, 2 * x)

RECURSIVE Pow2(_)
Pow2(k) == IF k = 0 THEN 1 ELSE 2 * Pow2(k - 1)

\* C17: for 0 < n <= 500 the retrieval loop ends after at most
\* ceil(log2(500 / n)) + 1 rounds: the breadth starts at n and is doubled by
\* every round, and a round is only begun while the count is below that bound.
C17_RoundsBounded ==
    ((pc = "retrieving" \/ Searched)
        /\ Active.n_results > 0 /\ Active.n_results <= MAX_RES_LIMIT)
        => /\ m = Active.n_results * Pow2(rounds)
           /\ rounds <= CeilLog2Ratio(MAX_RES_LIMIT, Active.n_results) + 1
           /\ (LoopContinues(results, Active.n_results, m)
                  => rounds < CeilLog2Ratio(MAX_RES_LIMIT, Active.n_results) + 1)

\* C17 witness: a search for one result has run its nine rounds.
C17_Witness ==
    /\ Searched
    /\ Active.n_results = 1
    /\ rounds = CeilLog2Ratio(MAX_RES_LIMIT, 1)
    /\ m = 512
    /\ ~LoopContinues(results, Active.n_results, m)

\* C19: the pool request of a combination search is a single-reference search
\* with n = 100, snippets off and mappings off whose other parameters are the
\* outer request's; the outer request keeps its map, its n and its flags.
C19_InterimRequest ==
    (req.kind = "SearchRequest103" /\ Nested)
        => /\ sub.kind = "SearchRequest102"
           /\ sub.n_results = INTERIM_N
           /\ ~sub.need_snippets
           /\ ~sub.need_mappings
           /\ SameOutside(sub.data, req.data, {"n", "snip", "maps"})
           /\ sub.query = req.query
           /\ sub.latent_query = req.latent_query
           /\ sub.indexes = req.indexes
           /\ sub.filters = req.filters
           /\ req.data = input.data
           /\ req.n_results = (IF "n" \in input.data.has THEN input.data.n.val ELSE DEFAULT_N)
           /\ req.need_snippets = ReadBoolValue(input.data, "snip")
           /\ req.need_mappings = ReadBoolValue(input.data, "maps")

\* C19 witness: a combination search asking for snippets and mappings has its
\* pool retrieved without them.
C19_Witness ==
    /\ req.kind = "SearchRequest103"
    /\ Nested
    /\ req.need_snippets
    /\ req.need_mappings
    /\ req.n_results # INTERIM_N
    /\ rounds >= 1
    /\ results # << >>

\* How often a document occurs in a list.
Occurrences(list, d) == Cardinality({i \in 1..Len(list) : list[i] = d})

\* C20: with a reranker, the whole filtered set is reranked before it is cut
\* to n, and reranking by a permutation only reorders it; without a reranker
\* the filtered list goes on unchanged, in its order.
C20_RerankWholeSetThenCut ==
    Searched
        => /\ IF reranker_active
              THEN /\ Count("reranker.rank") = 1
                   /\ Len(ranked) = Len(results)
                   /\ \A d \in Docs : Occurrences(ranked, d) = Occurrences(results, d)
              ELSE /\ Count("reranker.rank") = 0
                   /\ ranked = results
           /\ served = PySlice(ranked, Active.n_results)

\* C20 witness: two filtered documents were swapped by the reranker and then
\* cut to the one that came out first.
C20_Witness ==
    /\ Searched
    /\ reranker_active
    /\ Len(results) = 2
    /\ ranked = <<results[2], results[1]>>
    /\ Active.n_results = 1
    /\ served = <<results[2]>>

\* C18 as stated, for two nodes that federate with each other: one search is
\* not sent back and forth without bound, i.e. the extension requests it causes
\* stay below the number the model follows, whatever that number is.
C18_NoPingPong == Len(calls) < MaxHops

====
